---- MODULE Spec2Model ----
(***************************************************************************)
(* PNaCl setjmp()/longjmp()-based C++ exception handling                   *)
(* (src/src/cxa_pnacl_sjlj_exception.cpp): the table-driven clause         *)
(* matcher, the per-thread stack of exception frames, the dispatcher       *)
(* handle_exception() with its non-cleanup probe, and                      *)
(* __cxa_call_unexpected().                                                *)
(*                                                                         *)
(* Pointers are natural numbers.  Clause ids, clause-list ids and filter   *)
(* ids are the 1-based ids of the source; a C array index i is the TLA+    *)
(* sequence index i + 1.                                                   *)
(***************************************************************************)
EXTENDS Integers, Sequences, FiniteSets, TLC

\* ------------------------------------------------------------------ bounds

\* exception_frame objects alive at one time, over all threads.
MaxFrames == 3
\* Entries of a drawn action table, types of a drawn filter list (SpecTables).
MaxTable == 3

\* ------------------------------------------------------------ type universe

Threads == {1, 2}

\* A NULL entry of __pnacl_eh_type_table: catch (...).
NullType == "NULL"

\* Runtime types of thrown objects.  D derives from A (first base, offset 0)
\* and from B (second base); PD is D*; X is unrelated; BadEx is
\* std::bad_exception.
ThrowTypes == {"D", "X", "PD", "BadEx"}

\* The comparator catch_type->can_catch(throw_type, adjustedPtr), adjustedPtr
\* passed by reference: match is the result, adj is adjustedPtr after the call.
\* A class type matches itself and its derived classes and leaves adj at the
\* base subobject; a pointer type PA first dereferences adjustedPtr, whether
\* or not it then matches.
can_catch(catch_type, throw_type, adjustedPtr) ==
    CASE catch_type = "A" ->
           [match |-> throw_type \in {"A", "D"}, adj |-> adjustedPtr]
      [] catch_type = "B" ->
           [match |-> throw_type \in {"B", "D"},
            adj |-> IF throw_type = "D" THEN adjustedPtr + 4 ELSE adjustedPtr]
      [] catch_type = "PA" ->
           [match |-> throw_type \in {"PA", "PD"}, adj |-> adjustedPtr + 64]
      [] OTHER ->
           [match |-> throw_type = catch_type, adj |-> adjustedPtr]

\* ------------------------------------------------------------------- state

VARIABLES
    action_table,       \* __pnacl_eh_action_table: <<[clause_id, next_clause_list_id]>>
    type_table,         \* __pnacl_eh_type_table
    filter_table,       \* __pnacl_eh_filter_table
    frames,             \* the exception_frame objects, by address (1, 2, ...)
    __pnacl_eh_stack,   \* per thread: address of the innermost frame, 0 = NULL
    xh,                 \* per thread: the __cxa_exception in flight
    pc,                 \* per thread: where the thread is
    lp,                 \* per thread: the frame whose landingpad it was resumed in
    handlers,           \* the installed unexpected / terminate handlers
    last,               \* per thread: what the last entry-point call for xh did
    fn_in,              \* SpecTables: the drawn inputs of one function call
    fn_out              \* SpecTables: what the function returned

vars == <<action_table, type_table, filter_table, frames, __pnacl_eh_stack,
          xh, pc, lp, handlers, last, fn_in, fn_out>>

tables == <<action_table, type_table, filter_table>>
fn == <<fn_in, fn_out>>

\* ----------------------------------------------------------- static tables

\* The tables of the program under Spec.  Type table ordinals:
\* 1 = A, 2 = B, 3 = catch (...), 4 = A*, 5 = std::bad_exception.
ProgramTypeTable == <<"A", "B", NullType, "PA", "BadEx">>

\* Filter lists: -1 = throw(A), -3 = throw(std::bad_exception, B),
\* -5 = throw() (the sentinel alone).
ProgramFilterTable == <<1, 0, 5, 2, 0>>

\* Clause lists, by clause_list_id:
\* 1 [cleanup]            2 [catch B]              3 [catch A*, catch B]
\* 4 [filter -1]          5 [filter -3, cleanup]   6 [cleanup, catch A*, catch B]
\* 7 [catch (...), catch B]
ProgramActionTable ==
    << [clause_id |-> 0,  next_clause_list_id |-> 0],
       [clause_id |-> 2,  next_clause_list_id |-> 0],
       [clause_id |-> 4,  next_clause_list_id |-> 2],
       [clause_id |-> -1, next_clause_list_id |-> 0],
       [clause_id |-> -3, next_clause_list_id |-> 1],
       [clause_id |-> 0,  next_clause_list_id |-> 3],
       [clause_id |-> 3,  next_clause_list_id |-> 2] >>

\* ------------------------------------------------------- integer conversions

\* A uint32_t is kept as its two 16-bit halves [hi, lo].
\* int32_t -> uint32_t (landing_pad_result.matched_clause_id is uint32_t):
\* the value modulo 2^32.
ToUint32(i) == [hi |-> (i \div 65536) % 65536, lo |-> i % 65536]

\* uint32_t -> int32_t, as the landingpad code reads the clause id back.
ToInt32(u) ==
    IF u.hi >= 32768 THEN (u.hi - 65536) * 65536 + u.lo ELSE u.hi * 65536 + u.lo

\* ---------------------------------------------------------- clause matching

\* Each function that uses a call's result more than once is written as the
\* call followed by a continuation taking the result as a parameter.

\* exception_spec_can_catch from filter-table position i (1-based) on: obj is
\* the function's own copy of the pointer, calls counts can_catch calls.
RECURSIVE exception_spec_loop(_, _, _, _)
\* Mutant: the list is given up at its first type that does not match.
exception_spec_next_first_only(throw_type, i, calls, c) ==
    IF c.match
    THEN [result |-> FALSE, calls |-> calls + 1]
    ELSE [result |-> TRUE, calls |-> calls + 1]

exception_spec_next(throw_type, i, calls, c) ==
    IF c.match
    THEN [result |-> FALSE, calls |-> calls + 1]
    ELSE exception_spec_loop(throw_type, c.adj, i + 1, calls + 1)

exception_spec_loop(throw_type, obj, i, calls) ==
    IF filter_table[i] = 0
    THEN [result |-> TRUE, calls |-> calls]
    ELSE exception_spec_next(throw_type, i, calls,
             can_catch(type_table[filter_table[i]], throw_type, obj))

\* TRUE iff the thrown type matches none of the types of the exception
\* specification filter_id (< 0).
exception_spec_can_catch(throw_type, obj, filter_id) ==
    exception_spec_loop(throw_type, obj, -filter_id, 0)

\* The "filter" clause of does_clause_match: *obj stays as it was.
filter_clause_result(obj, r) ==
    [matched |-> r.result, obj |-> obj, calls |-> r.calls]

\* The "catch" clause of does_clause_match: *obj is what can_catch left.
catch_clause_result(c) ==
    [matched |-> c.match, obj |-> c.adj, calls |-> 1]

\* Where the caller's pointer to the thrown object is kept: the local obj of
\* handle_exception (line 230), or the parameter obj of is_exception_caught.
LocalObjAddress == 4096

\* Mutant: the filter evaluator is given the caller's pointer by reference, so
\* what its first can_catch call left stays in *obj.
does_clause_match_filter_adjusts(throw_type, obj, clause_id) ==
    IF clause_id = 0
    THEN [matched |-> TRUE, obj |-> obj, calls |-> 0]
    ELSE IF clause_id < 0
    THEN filter_clause_result(
             IF filter_table[-clause_id] = 0 THEN obj
             ELSE can_catch(type_table[filter_table[-clause_id]], throw_type,
                            obj).adj,
             exception_spec_can_catch(throw_type, LocalObjAddress, clause_id))
    ELSE IF type_table[clause_id] = NullType
    THEN [matched |-> TRUE, obj |-> obj, calls |-> 0]
    ELSE catch_clause_result(can_catch(type_table[clause_id], throw_type, obj))

\* obj is *obj after the call.  The "filter" clause hands obj itself, the
\* void ** that points to the caller's pointer, to the void * parameter of
\* exception_spec_can_catch.
does_clause_match(throw_type, obj, clause_id) ==
    IF clause_id = 0
    THEN [matched |-> TRUE, obj |-> obj, calls |-> 0]
    ELSE IF clause_id < 0
    THEN filter_clause_result(obj,
             exception_spec_can_catch(throw_type, LocalObjAddress, clause_id))
    ELSE IF type_table[clause_id] = NullType
    THEN [matched |-> TRUE, obj |-> obj, calls |-> 0]
    ELSE catch_clause_result(can_catch(type_table[clause_id], throw_type, obj))

\* *result_clause_id is written only on a match; "unset" stands for the
\* caller's uninitialized local, which no caller reads.
RECURSIVE does_frame_match_loop(_, _, _, _)
\* Mutant: a match counts only at the last entry of the list.
does_frame_match_next_last_only(throw_type, list_node, calls, m) ==
    IF m.matched /\ list_node.next_clause_list_id = 0
    THEN [matched |-> TRUE, obj |-> m.obj, clause_id |-> list_node.clause_id,
          calls |-> calls + m.calls]
    ELSE does_frame_match_loop(throw_type, m.obj,
                               list_node.next_clause_list_id, calls + m.calls)

does_frame_match_next(throw_type, list_node, calls, m) ==
    IF m.matched
    THEN [matched |-> TRUE, obj |-> m.obj, clause_id |-> list_node.clause_id,
          calls |-> calls + m.calls]
    ELSE does_frame_match_loop(throw_type, m.obj,
                               list_node.next_clause_list_id, calls + m.calls)

does_frame_match_loop(throw_type, obj, clause_list_id, calls) ==
    IF clause_list_id = 0
    THEN [matched |-> FALSE, obj |-> obj, clause_id |-> "unset", calls |-> calls]
    ELSE does_frame_match_next(throw_type, action_table[clause_list_id], calls,
             does_clause_match(throw_type, obj,
                               action_table[clause_list_id].clause_id))

does_frame_match(throw_type, obj, frame) ==
    does_frame_match_loop(throw_type, obj, frames[frame].clause_list_id, 0)

\* visited lists the frames whose clause lists were walked, in order.
RECURSIVE find_match_loop(_, _, _, _, _)
\* Mutant: a frame that matches on a cleanup clause is passed over.
find_match_next_past_cleanup(throw_type, frame, calls, visited, m) ==
    IF m.matched /\ m.clause_id # 0
    THEN [matched |-> TRUE, obj |-> m.obj, frame |-> frame,
          clause_id |-> m.clause_id, calls |-> calls + m.calls,
          visited |-> Append(visited, frame)]
    ELSE find_match_loop(throw_type, m.obj, frames[frame].next,
                         calls + m.calls, Append(visited, frame))

find_match_next(throw_type, frame, calls, visited, m) ==
    IF m.matched
    THEN [matched |-> TRUE, obj |-> m.obj, frame |-> frame,
          clause_id |-> m.clause_id, calls |-> calls + m.calls,
          visited |-> Append(visited, frame)]
    ELSE find_match_loop(throw_type, m.obj, frames[frame].next,
                         calls + m.calls, Append(visited, frame))

find_match_loop(throw_type, obj, frame, calls, visited) ==
    IF frame = 0
    THEN [matched |-> FALSE, obj |-> obj, frame |-> 0, clause_id |-> "unset",
          calls |-> calls, visited |-> visited]
    ELSE find_match_next(throw_type, frame, calls, visited,
                         does_frame_match(throw_type, obj, frame))

find_match(throw_type, obj, frame) ==
    find_match_loop(throw_type, obj, frame, 0, <<>>)

RECURSIVE is_exception_caught_loop(_, _, _, _, _)
\* Mutant: a frame that matches on a cleanup clause counts as a handler.
is_exception_caught_next_any_clause(throw_type, frame, calls, visited, m) ==
    IF m.matched
    THEN [caught |-> TRUE, calls |-> calls + m.calls,
          visited |-> Append(visited, frame)]
    ELSE is_exception_caught_loop(throw_type, m.obj, frames[frame].next,
                                  calls + m.calls, Append(visited, frame))

is_exception_caught_next(throw_type, frame, calls, visited, m) ==
    IF m.matched /\ m.clause_id # 0
    THEN [caught |-> TRUE, calls |-> calls + m.calls,
          visited |-> Append(visited, frame)]
    ELSE is_exception_caught_loop(throw_type, m.obj, frames[frame].next,
                                  calls + m.calls, Append(visited, frame))

\* Mutant: the end of the stack counts as a handler.
is_exception_caught_loop_end_caught(throw_type, obj, frame, calls, visited) ==
    IF frame = 0
    THEN [caught |-> TRUE, calls |-> calls, visited |-> visited]
    ELSE is_exception_caught_next(throw_type, frame, calls, visited,
                                  does_frame_match(throw_type, obj, frame))

is_exception_caught_loop(throw_type, obj, frame, calls, visited) ==
    IF frame = 0
    THEN [caught |-> FALSE, calls |-> calls, visited |-> visited]
    ELSE is_exception_caught_next(throw_type, frame, calls, visited,
                                  does_frame_match(throw_type, obj, frame))

is_exception_caught(throw_type, obj, frame) ==
    is_exception_caught_loop(throw_type, obj, frame, 0, <<>>)

\* ------------------------------------------------------------ fault handles

NoException ==
    [ue |-> 0, exceptionType |-> "none", exception_class |-> "none",
     primaryException |-> 0, adjustedPtr |-> 0, handlerSwitchValue |-> 0,
     unexpectedHandler |-> 0, terminateHandler |-> 0, handlerCount |-> 0]

\* A __cxa_exception as __cxa_throw leaves it: the type, the handlers installed
\* at the throw, and an _Unwind_Exception header at address ue.  A dependent
\* exception refers to the primary exception's object.
NewException(ue, type, class) ==
    [ue |-> ue, exceptionType |-> type, exception_class |-> class,
     primaryException |-> IF class = "dependent" THEN ue + 17 ELSE 0,
     adjustedPtr |-> 0, handlerSwitchValue |-> 0,
     unexpectedHandler |-> handlers.unexpected,
     terminateHandler |-> handlers.terminate, handlerCount |-> 0]

\* The faults ordinary code throws.
Faults ==
    { [type |-> "D", class |-> "primary"], [type |-> "X", class |-> "primary"],
      [type |-> "PD", class |-> "primary"], [type |-> "D", class |-> "dependent"] }

\* The thrown object: the primary exception's object for a dependent exception,
\* else the memory right after the header.
get_object_from_ue(h) ==
    IF h.exception_class = "dependent" THEN h.primaryException ELSE h.ue + 1

\* ------------------------------------------------------------- the dispatcher

\* The union of exception_frame read as its jmpbuf member: the checkpoint
\* setjmp() saved there, or, once a landing_pad_result was written over it,
\* bytes that are no frame's checkpoint (0).
ReadJmpbuf(payload) ==
    IF payload.kind = "jmpbuf" THEN payload.token ELSE 0

\* handle_exception() returned to its caller with nothing written.
handle_exception_return(t, calls, searched, probed) ==
    [returns |-> TRUE, stack |-> __pnacl_eh_stack[t], xh |-> xh[t],
     frames |-> frames, target |-> 0, frame |-> 0, clause_id |-> "unset",
     calls |-> calls, searched |-> searched, probed |-> probed]

\* Mutant: the jmp_buf is copied after the result is written over it.
handle_exception_commit_copy_late(t, m, probe) ==
    LET stack1 == frames[m.frame].next
        xh1 == [xh[t] EXCEPT !.adjustedPtr = m.obj,
                             !.handlerSwitchValue = m.clause_id]
        frames1 == [frames EXCEPT ![m.frame].payload =
                       [kind |-> "result", exception_obj |-> xh[t].ue,
                        matched_clause_id |-> ToUint32(m.clause_id)]]
        jmpbuf_copy == ReadJmpbuf(frames1[m.frame].payload)
    IN  [returns |-> FALSE, stack |-> stack1, xh |-> xh1, frames |-> frames1,
         target |-> jmpbuf_copy, frame |-> m.frame, clause_id |-> m.clause_id,
         calls |-> m.calls + probe.calls, searched |-> m.visited,
         probed |-> probe.visited]

\* Mutant: the stack is popped to the matching frame, not past it.
handle_exception_commit_unpopped(t, m, probe) ==
    LET xh1 == [xh[t] EXCEPT !.adjustedPtr = m.obj,
                             !.handlerSwitchValue = m.clause_id]
        frames1 == [frames EXCEPT ![m.frame].payload =
                       [kind |-> "result", exception_obj |-> xh[t].ue,
                        matched_clause_id |-> ToUint32(m.clause_id)]]
    IN  [returns |-> FALSE, stack |-> m.frame, xh |-> xh1, frames |-> frames1,
         target |-> ReadJmpbuf(frames[m.frame].payload), frame |-> m.frame,
         clause_id |-> m.clause_id, calls |-> m.calls + probe.calls,
         searched |-> m.visited, probed |-> probe.visited]

\* Lines 256-277: pop to frame->next, save the adjusted pointer and the clause
\* id in the header, copy the jmp_buf, write the landingpad's result over it,
\* longjmp() to the copy.
handle_exception_commit(t, m, probe) ==
    LET stack1 == frames[m.frame].next
        xh1 == [xh[t] EXCEPT !.adjustedPtr = m.obj,
                             !.handlerSwitchValue = m.clause_id]
        jmpbuf_copy == ReadJmpbuf(frames[m.frame].payload)
        frames1 == [frames EXCEPT ![m.frame].payload =
                       [kind |-> "result", exception_obj |-> xh[t].ue,
                        matched_clause_id |-> ToUint32(m.clause_id)]]
    IN  [returns |-> FALSE, stack |-> stack1, xh |-> xh1, frames |-> frames1,
         target |-> jmpbuf_copy, frame |-> m.frame, clause_id |-> m.clause_id,
         calls |-> m.calls + probe.calls, searched |-> m.visited,
         probed |-> probe.visited]

\* Mutant: the non-cleanup check is made on the caller's pointer itself, so
\* the adjustments made while the frames after the match are examined stay.
handle_exception_probed_on_callers_obj(t, m, probe) ==
    IF ~probe.caught
    THEN handle_exception_return(t, m.calls + probe.calls, m.visited,
                                 probe.visited)
    ELSE handle_exception_commit(t,
             IF probe.visited = <<>> THEN m
             ELSE [m EXCEPT !.obj = find_match(xh[t].exceptionType, m.obj,
                                               frames[m.frame].next).obj],
             probe)

\* Mutant: the stack is popped before the non-cleanup check is looked at.
handle_exception_probed_popped_first(t, m, probe) ==
    IF ~probe.caught
    THEN [handle_exception_return(t, m.calls + probe.calls, m.visited,
                                  probe.visited)
             EXCEPT !.stack = frames[m.frame].next]
    ELSE handle_exception_commit(t, m, probe)

\* Mutant: the result of the non-cleanup check is not looked at.
handle_exception_probed_unchecked(t, m, probe) ==
    handle_exception_commit(t, m, probe)

\* Lines 251-277, probe the result of the non-cleanup check (caught = TRUE
\* when the check is not made).
handle_exception_probed(t, m, probe) ==
    IF ~probe.caught
    THEN handle_exception_return(t, m.calls + probe.calls, m.visited,
                                 probe.visited)
    ELSE handle_exception_commit(t, m, probe)

\* Mutant: the non-cleanup check is made for the clauses that need none.
handle_exception_matched_misprobed(t, check_for_catch, m) ==
    IF ~m.matched
    THEN handle_exception_return(t, m.calls, m.visited, <<>>)
    ELSE handle_exception_probed(t, m,
             IF check_for_catch /\ m.clause_id # 0
             THEN is_exception_caught(xh[t].exceptionType, m.obj,
                                      frames[m.frame].next)
             ELSE [caught |-> TRUE, calls |-> 0, visited |-> <<>>])

\* Lines 235-277, m the result of find_match().
handle_exception_matched(t, check_for_catch, m) ==
    IF ~m.matched
    THEN handle_exception_return(t, m.calls, m.visited, <<>>)
    ELSE handle_exception_probed(t, m,
             IF check_for_catch /\ m.clause_id = 0
             THEN is_exception_caught(xh[t].exceptionType, m.obj,
                                      frames[m.frame].next)
             ELSE [caught |-> TRUE, calls |-> 0, visited |-> <<>>])

\* Mutant: the stack top is one variable of the program, not one per thread.
handle_exception_shared_stack(t, check_for_catch) ==
    handle_exception_matched(t, check_for_catch,
        find_match(xh[t].exceptionType, get_object_from_ue(xh[t]),
                   __pnacl_eh_stack[1]))

\* handle_exception(ue_header, check_for_catch) on thread t.  returns = TRUE: the
\* function returned to its caller; else it ended in longjmp(jmpbuf_copy, 1) and
\* stack, xh, frames are the thread's stack top, the header and the frames at
\* the jump, target the jmp_buf jumped to.
handle_exception(t, check_for_catch) ==
    handle_exception_matched(t, check_for_catch,
        find_match(xh[t].exceptionType, get_object_from_ue(xh[t]),
                   __pnacl_eh_stack[t]))

\* -------------------------------------------------------------- history

\* The frames on thread t's stack from frame f outward, innermost first.
RECURSIVE StackFrom(_, _)
StackFrom(fr, f) == IF f = 0 THEN <<>> ELSE <<f>> \o StackFrom(fr, fr[f].next)

\* last[t] records the last entry-point call made for the exception in flight:
\* op and outcome; the frame and clause id committed to; calls, the can_catch
\* calls it made, and total, those made since the exception was raised;
\* searched and probed, the frames find_match() and is_exception_caught()
\* walked; pre_*, the thread's stack top, the frames and the header when the
\* call was entered; full_probe, is_exception_caught() of the thrown object
\* from the stack top at that moment; raise_*, the stack and the frames when
\* the exception was raised; for __cxa_call_unexpected, what the handler did
\* (hook), the type then in flight and the handlers used.
NoCall ==
    [op |-> "none", outcome |-> "none", frame |-> 0, clause_id |-> "unset",
     calls |-> 0, total |-> 0, searched |-> <<>>, probed |-> <<>>,
     pre_stack |-> 0, pre_frames |-> <<>>, pre_xh |-> NoException,
     full_probe |-> FALSE, raise_stack |-> <<>>, raise_frames |-> <<>>,
     hook |-> [kind |-> "none", type |-> "none"], new_type |-> "none",
     unexpected_handler |-> 0, term_handler |-> 0]

\* What one call of handle_exception on thread t did, for last[t].
DispatchRecord(t, op, r, outcome) ==
    [NoCall EXCEPT
        !.op = op, !.outcome = outcome, !.frame = r.frame,
        !.clause_id = r.clause_id, !.calls = r.calls,
        !.total = (IF op = "resume" THEN last[t].total ELSE 0) + r.calls,
        !.searched = r.searched, !.probed = r.probed,
        !.pre_stack = __pnacl_eh_stack[t], !.pre_frames = frames,
        !.pre_xh = xh[t],
        !.full_probe = is_exception_caught(xh[t].exceptionType,
                           get_object_from_ue(xh[t]), __pnacl_eh_stack[t]).caught,
        !.raise_stack = IF op = "resume" THEN last[t].raise_stack
                        ELSE StackFrom(frames, __pnacl_eh_stack[t]),
        !.raise_frames = IF op = "resume" THEN last[t].raise_frames ELSE frames]

\* ---------------------------------------------------------------- actions

\* The clause id the landingpad of frame f reads from its result.
LandingpadClause(f) == ToInt32(frames[f].payload.matched_clause_id)

Max(S) == CHOOSE x \in S : \A y \in S : y <= x

\* Frames live in the stack memory of the functions that entered the regions,
\* so addresses grow inward.  Memory above every thread's innermost frame and
\* above the frame of a landingpad still running is released: fr cut to the
\* frames in use, stack and land the threads' stack tops and landingpad frames.
Release(fr, stack, land) ==
    SubSeq(fr, 1, Max({stack[t] : t \in Threads} \cup {land[t] : t \in Threads}))

\* Region entry, as the code generator emits it for an invoke: a frame on the
\* function's own stack holding the setjmp() checkpoint, linked in as the
\* innermost frame.
EnterRegion(t) ==
    /\ pc[t] = "run"
    /\ Len(frames) < MaxFrames
    /\ \E c \in 1..Len(action_table) :
          /\ frames' = Append(frames,
                 [payload |-> [kind |-> "jmpbuf", token |-> Len(frames) + 1],
                  next |-> __pnacl_eh_stack[t], clause_list_id |-> c])
          /\ __pnacl_eh_stack' = [__pnacl_eh_stack EXCEPT ![t] = Len(frames) + 1]
    /\ UNCHANGED <<tables, xh, pc, lp, handlers, last, fn>>

\* Region exit without a fault: the invoke returned normally and the frame is
\* unlinked.
LeaveRegion(t) ==
    /\ pc[t] = "run"
    /\ __pnacl_eh_stack[t] # 0
    /\ __pnacl_eh_stack' =
           [__pnacl_eh_stack EXCEPT ![t] = frames[__pnacl_eh_stack[t]].next]
    /\ frames' = Release(frames, __pnacl_eh_stack', lp)
    /\ UNCHANGED <<tables, xh, pc, lp, handlers, last, fn>>

\* std::set_unexpected() and std::set_terminate() install new handlers, here
\* while an exception is in flight (from a destructor a landingpad runs).
set_handlers(t) ==
    /\ pc[t] = "landingpad"
    /\ handlers.terminate = 1
    /\ handlers' = [unexpected |-> 2, terminate |-> 2]
    /\ UNCHANGED <<tables, frames, __pnacl_eh_stack, xh, pc, lp, last, fn>>

\* "throw EXPR;": __cxa_throw() fills in the exception header and is about to
\* call _Unwind_RaiseException().
cxa_throw(t) ==
    /\ pc[t] = "run"
    /\ \E f \in Faults :
          xh' = [xh EXCEPT ![t] = NewException(16, f.type, f.class)]
    /\ pc' = [pc EXCEPT ![t] = "throwing"]
    /\ last' = [last EXCEPT ![t] = NoCall]
    /\ UNCHANGED <<tables, frames, __pnacl_eh_stack, lp, handlers, fn>>

\* The state after handle_exception() on thread t ended in longjmp(): the
\* thread runs the landingpad of the frame the jmp_buf was saved in.
Transfer(t, r) ==
    /\ __pnacl_eh_stack' = [__pnacl_eh_stack EXCEPT ![t] = r.stack]
    /\ xh' = [xh EXCEPT ![t] = r.xh]
    /\ lp' = [lp EXCEPT ![t] = r.target]
    /\ frames' = Release(r.frames, __pnacl_eh_stack', lp')
    /\ pc' = [pc EXCEPT ![t] = "landingpad"]

\* __pnacl_eh_sjlj_Unwind_RaiseException(ue_header) after handle_exception()
\* did r: it jumped, or the call returns _URC_END_OF_STACK.
RaiseExceptionEnd(t, r) ==
    /\ IF r.returns
       THEN /\ pc' = [pc EXCEPT ![t] = "returned"]
            /\ last' = [last EXCEPT ![t] =
                           DispatchRecord(t, "raise", r, "URC_END_OF_STACK")]
            /\ __pnacl_eh_stack' = [__pnacl_eh_stack EXCEPT ![t] = r.stack]
            /\ xh' = [xh EXCEPT ![t] = r.xh]
            /\ frames' = r.frames
            /\ UNCHANGED lp
       ELSE /\ Transfer(t, r)
            /\ last' = [last EXCEPT ![t] =
                           DispatchRecord(t, "raise", r, "transferred")]
    /\ UNCHANGED <<tables, handlers, fn>>

\* "throw EXPR;": __cxa_throw() calls _Unwind_RaiseException().
Unwind_RaiseException(t) ==
    /\ pc[t] = "throwing"
    /\ RaiseExceptionEnd(t, handle_exception(t, TRUE))

\* "throw;": __cxa_rethrow() calls _Unwind_Resume_or_Rethrow(), which calls
\* __pnacl_eh_sjlj_Unwind_RaiseException().
Unwind_Resume_or_Rethrow(t) ==
    /\ pc[t] = "rethrowing"
    /\ RaiseExceptionEnd(t, handle_exception(t, TRUE))

\* Mutant: when handle_exception() finds nothing the call returns to the
\* landingpad.
pnacl_eh_resume_end_returning(t, r) ==
    /\ IF r.returns
       THEN /\ pc' = [pc EXCEPT ![t] = "returned"]
            /\ last' = [last EXCEPT ![t] =
                           DispatchRecord(t, "resume", r, "returned")]
            /\ UNCHANGED <<frames, __pnacl_eh_stack, xh, lp>>
       ELSE /\ Transfer(t, r)
            /\ last' = [last EXCEPT ![t] =
                           DispatchRecord(t, "resume", r, "transferred")]
    /\ UNCHANGED <<tables, handlers, fn>>

\* __pnacl_eh_resume(ue_header) after handle_exception() did r: it jumped, or
\* __cxa_begin_catch() and std::terminate().
pnacl_eh_resume_end(t, r) ==
    /\ IF r.returns
       THEN /\ pc' = [pc EXCEPT ![t] = "terminated"]
            /\ xh' = [xh EXCEPT ![t] = [r.xh EXCEPT !.handlerCount = @ + 1]]
            /\ last' = [last EXCEPT ![t] =
                           DispatchRecord(t, "resume", r, "terminate")]
            /\ __pnacl_eh_stack' = [__pnacl_eh_stack EXCEPT ![t] = r.stack]
            /\ frames' = r.frames
            /\ UNCHANGED lp
       ELSE /\ Transfer(t, r)
            /\ last' = [last EXCEPT ![t] =
                           DispatchRecord(t, "resume", r, "transferred")]
    /\ UNCHANGED <<tables, handlers, fn>>

\* Mutant: resume asks for the non-cleanup check as raise does.
pnacl_eh_resume_probing(t) ==
    /\ pc[t] = "landingpad"
    /\ pnacl_eh_resume_end(t, handle_exception(t, TRUE))

\* __pnacl_eh_resume(ue_header), called by a landingpad as its last step.
pnacl_eh_resume(t) ==
    /\ pc[t] = "landingpad"
    /\ pnacl_eh_resume_end(t, handle_exception(t, FALSE))

\* A landingpad entered for a catch clause enters its catch block.
cxa_begin_catch(t) ==
    /\ pc[t] = "landingpad"
    /\ LandingpadClause(lp[t]) > 0
    /\ xh' = [xh EXCEPT ![t].handlerCount = @ + 1]
    /\ pc' = [pc EXCEPT ![t] = "catch"]
    /\ lp' = [lp EXCEPT ![t] = 0]
    /\ frames' = Release(frames, __pnacl_eh_stack, lp')
    /\ UNCHANGED <<tables, __pnacl_eh_stack, handlers, last, fn>>

\* The catch block ends without rethrowing: the exception is released.
cxa_end_catch(t) ==
    /\ pc[t] = "catch"
    /\ xh' = [xh EXCEPT ![t] = NoException]
    /\ pc' = [pc EXCEPT ![t] = "run"]
    /\ last' = [last EXCEPT ![t] = NoCall]
    /\ UNCHANGED <<tables, frames, __pnacl_eh_stack, lp, handlers, fn>>

\* "throw;" in the catch block.
cxa_rethrow(t) ==
    /\ pc[t] = "catch"
    /\ pc' = [pc EXCEPT ![t] = "rethrowing"]
    /\ UNCHANGED <<tables, frames, __pnacl_eh_stack, xh, lp, handlers, last, fn>>

\* What the handler registered with std::set_unexpected() may do when called:
\* return, rethrow the exception being handled ("throw;"), or throw a new one.
Hooks ==
    { [kind |-> "returns", type |-> "none"], [kind |-> "rethrow", type |-> "none"] }
    \cup { [kind |-> "throw", type |-> ty] : ty \in {"D", "X", "BadEx"} }

\* The clause id of a catch (...) clause.
CatchAllClause == CHOOSE c \in 1..Len(type_table) : type_table[c] = NullType

\* The header of an exception that "catch (...)" of __cxa_call_unexpected()
\* caught: the dispatcher committed to that catch-all clause (handle_exception
\* lines 260-266) and __cxa_begin_catch() counted the handler.
CaughtByCatchAll(h) ==
    [h EXCEPT !.adjustedPtr = get_object_from_ue(h),
              !.handlerSwitchValue = CatchAllClause, !.handlerCount = @ + 1]

\* Mutant: std::bad_exception is tried before the exception the handler threw.
cxa_call_unexpected_caught_bad_first(new_exception_header, filter_id, u_handler, t_handler) ==
    IF ~exception_spec_can_catch("BadEx", 80, filter_id).result
    THEN [outcome |-> "bad_exception",
          xh |-> NewException(96, "BadEx", "primary"),
          unexpected_handler |-> u_handler, term_handler |-> 0]
    ELSE IF ~exception_spec_can_catch(new_exception_header.exceptionType,
                 get_object_from_ue(new_exception_header), filter_id).result
    THEN [outcome |-> "propagate", xh |-> new_exception_header,
          unexpected_handler |-> u_handler, term_handler |-> 0]
    ELSE [outcome |-> "terminate", xh |-> new_exception_header,
          unexpected_handler |-> u_handler, term_handler |-> t_handler]

\* Lines 388-407 of __pnacl_eh_sjlj_cxa_call_unexpected(): the handler threw
\* new_exception_header, caught by catch (...).
cxa_call_unexpected_caught(new_exception_header, filter_id, u_handler, t_handler) ==
    IF ~exception_spec_can_catch(new_exception_header.exceptionType,
            get_object_from_ue(new_exception_header), filter_id).result
    THEN [outcome |-> "propagate", xh |-> new_exception_header,
          unexpected_handler |-> u_handler, term_handler |-> 0]
    ELSE IF ~exception_spec_can_catch("BadEx", 80, filter_id).result
    THEN [outcome |-> "bad_exception",
          xh |-> NewException(96, "BadEx", "primary"),
          unexpected_handler |-> u_handler, term_handler |-> 0]
    ELSE [outcome |-> "terminate", xh |-> new_exception_header,
          unexpected_handler |-> u_handler, term_handler |-> t_handler]

\* Mutant: the handlers are the ones installed when the function runs, not the
\* ones saved in the header.
cxa_call_unexpected_handled_current_handlers(old_exception_header, hook) ==
    IF hook.kind = "returns"
    THEN [outcome |-> "abort", xh |-> old_exception_header,
          unexpected_handler |-> handlers.unexpected, term_handler |-> 0]
    ELSE cxa_call_unexpected_caught(
             IF hook.kind = "rethrow"
             THEN CaughtByCatchAll(old_exception_header)
             ELSE CaughtByCatchAll(NewException(48, hook.type, "primary")),
             old_exception_header.handlerSwitchValue,
             handlers.unexpected, handlers.terminate)

\* Lines 376-407, old_exception_header the header after __cxa_begin_catch().
\* The locals filter_id, u_handler and t_handler are read before the handler
\* runs.
cxa_call_unexpected_handled(old_exception_header, hook) ==
    IF hook.kind = "returns"
    THEN [outcome |-> "abort", xh |-> old_exception_header,
          unexpected_handler |-> old_exception_header.unexpectedHandler,
          term_handler |-> 0]
    ELSE cxa_call_unexpected_caught(
             IF hook.kind = "rethrow"
             THEN CaughtByCatchAll(old_exception_header)
             ELSE CaughtByCatchAll(NewException(48, hook.type, "primary")),
             old_exception_header.handlerSwitchValue,
             old_exception_header.unexpectedHandler,
             old_exception_header.terminateHandler)

\* __pnacl_eh_sjlj_cxa_call_unexpected(ue_header) on thread t, the handler
\* behaving as hook.  outcome: "abort" (the handler returned), "propagate"
\* (throw;), "bad_exception" (throw be) or "terminate" (std::__terminate);
\* xh is the exception then in flight, term_handler the handler terminate runs.
cxa_call_unexpected_body(t, hook) ==
    cxa_call_unexpected_handled([xh[t] EXCEPT !.handlerCount = @ + 1], hook)

\* The state after __cxa_call_unexpected() did r.
cxa_call_unexpected_end(t, hook, r) ==
    /\ xh' = [xh EXCEPT ![t] = r.xh]
    /\ pc' = [pc EXCEPT ![t] =
                 CASE r.outcome = "propagate" -> "rethrowing"
                   [] r.outcome = "bad_exception" -> "throwing"
                   [] OTHER -> "terminated"]
    /\ last' = [last EXCEPT ![t] =
           [NoCall EXCEPT !.op = "call_unexpected", !.outcome = r.outcome,
                          !.frame = lp[t], !.hook = hook,
                          !.new_type = r.xh.exceptionType,
                          !.unexpected_handler = r.unexpected_handler,
                          !.term_handler = r.term_handler,
                          !.pre_stack = __pnacl_eh_stack[t],
                          !.pre_frames = frames, !.pre_xh = xh[t]]]

\* A landingpad entered for a filter clause calls __cxa_call_unexpected().
cxa_call_unexpected(t) ==
    /\ pc[t] = "landingpad"
    /\ LandingpadClause(lp[t]) < 0
    /\ \E hook \in Hooks :
          cxa_call_unexpected_end(t, hook, cxa_call_unexpected_body(t, hook))
    /\ lp' = [lp EXCEPT ![t] = 0]
    /\ frames' = Release(frames, __pnacl_eh_stack, lp')
    /\ UNCHANGED <<tables, __pnacl_eh_stack, handlers, fn>>

\* ----------------------------------------------------------- specification

Init ==
    /\ action_table = ProgramActionTable
    /\ type_table = ProgramTypeTable
    /\ filter_table = ProgramFilterTable
    /\ frames = <<>>
    /\ __pnacl_eh_stack = [t \in Threads |-> 0]
    /\ xh = [t \in Threads |-> NoException]
    /\ pc = [t \in Threads |-> "run"]
    /\ lp = [t \in Threads |-> 0]
    /\ handlers = [unexpected |-> 1, terminate |-> 1]
    /\ last = [t \in Threads |-> NoCall]
    /\ fn_in = [fn |-> "none"]
    /\ fn_out = [returned |-> FALSE]

\* One thread runs.
Next ==
    \/ EnterRegion(1)
    \/ LeaveRegion(1)
    \/ set_handlers(1)
    \/ cxa_throw(1)
    \/ Unwind_RaiseException(1)
    \/ Unwind_Resume_or_Rethrow(1)
    \/ pnacl_eh_resume(1)
    \/ cxa_begin_catch(1)
    \/ cxa_end_catch(1)
    \/ cxa_rethrow(1)
    \/ cxa_call_unexpected(1)

Spec == Init /\ [][Next]_vars

\* The clause lists of a smaller program: 1 [cleanup]; 2 [catch B].
ThreadsActionTable ==
    << [clause_id |-> 0, next_clause_list_id |-> 0],
       [clause_id |-> 2, next_clause_list_id |-> 0] >>

InitThreads ==
    /\ action_table = ThreadsActionTable
    /\ type_table = ProgramTypeTable
    /\ filter_table = ProgramFilterTable
    /\ frames = <<>>
    /\ __pnacl_eh_stack = [t \in Threads |-> 0]
    /\ xh = [t \in Threads |-> NoException]
    /\ pc = [t \in Threads |-> "run"]
    /\ lp = [t \in Threads |-> 0]
    /\ handlers = [unexpected |-> 1, terminate |-> 1]
    /\ last = [t \in Threads |-> NoCall]
    /\ fn_in = [fn |-> "none"]
    /\ fn_out = [returned |-> FALSE]

\* "throw D();" on thread t, the exception at an address of the thread's own.
cxa_throw_D(t) ==
    /\ pc[t] = "run"
    /\ xh' = [xh EXCEPT ![t] = NewException(16 * t, "D", "primary")]
    /\ pc' = [pc EXCEPT ![t] = "throwing"]
    /\ last' = [last EXCEPT ![t] = NoCall]
    /\ UNCHANGED <<tables, frames, __pnacl_eh_stack, lp, handlers, fn>>

\* Two threads run, interleaved in any order.
NextThreads ==
    \E t \in Threads :
        \/ EnterRegion(t)
        \/ LeaveRegion(t)
        \/ cxa_throw_D(t)
        \/ Unwind_RaiseException(t)
        \/ pnacl_eh_resume(t)

SpecThreads == InitThreads /\ [][NextThreads]_vars

\* ------------------------------------------------- the matcher on drawn tables

\* Action tables of n entries as the table writer lays them out: an entry's
\* next_clause_list_id names an earlier entry or is 0, so every list ends.
\* Clause ids: filter -1, cleanup, catch A, catch B, catch (...), catch A*.
RECURSIVE ActionTables(_)
ActionTables(n) ==
    IF n = 0 THEN {<<>>}
    ELSE { Append(tb, [clause_id |-> c, next_clause_list_id |-> nx]) :
               tb \in ActionTables(n - 1), c \in -1..4, nx \in 0..(n - 1) }

\* Filter lists of n type-table ordinals (none of them the NULL entry).
RECURSIVE FilterLists(_)
FilterLists(n) ==
    IF n = 0 THEN {<<>>}
    ELSE { Append(fl, ty) : fl \in FilterLists(n - 1), ty \in {1, 2, 4, 5} }

\* One call of does_frame_match() on a frame whose clause list is the last
\* entry of a drawn action table.
InitFrameMatch ==
    /\ \E n \in 1..MaxTable : action_table \in ActionTables(n)
    /\ filter_table = ProgramFilterTable
    /\ frames = << [payload |-> [kind |-> "jmpbuf", token |-> 1], next |-> 0,
                    clause_list_id |-> Len(action_table)] >>
    /\ \E ty \in {"D", "X", "PD"} :
          fn_in = [fn |-> "does_frame_match", throw_type |-> ty, obj |-> 17,
                   filter_id |-> 0]

\* One call of exception_spec_can_catch() on a drawn filter list, followed in
\* the table by its sentinel and then by another list; filter_id names the
\* list or one of its tails.
InitFilter ==
    /\ action_table = ProgramActionTable
    /\ \E n \in 0..MaxTable : \E fl \in FilterLists(n) :
          /\ filter_table = fl \o <<0, 1, 2, 5, 0>>
          /\ \E ty \in ThrowTypes, k \in 1..(n + 1) :
                fn_in = [fn |-> "exception_spec_can_catch", throw_type |-> ty,
                         obj |-> 17, filter_id |-> -k]
    /\ frames = <<>>

InitTables ==
    /\ type_table = ProgramTypeTable
    /\ InitFrameMatch \/ InitFilter
    /\ __pnacl_eh_stack = [t \in Threads |-> 0]
    /\ xh = [t \in Threads |-> NoException]
    /\ pc = [t \in Threads |-> "run"]
    /\ lp = [t \in Threads |-> 0]
    /\ handlers = [unexpected |-> 1, terminate |-> 1]
    /\ last = [t \in Threads |-> NoCall]
    /\ fn_out = [returned |-> FALSE]

CallDoesFrameMatch ==
    /\ fn_in.fn = "does_frame_match"
    /\ ~fn_out.returned
    /\ fn_out' = [returned |-> TRUE,
                  value |-> does_frame_match(fn_in.throw_type, fn_in.obj, 1)]
    /\ UNCHANGED <<tables, frames, __pnacl_eh_stack, xh, pc, lp, handlers, last,
                   fn_in>>

CallExceptionSpecCanCatch ==
    /\ fn_in.fn = "exception_spec_can_catch"
    /\ ~fn_out.returned
    /\ fn_out' = [returned |-> TRUE,
                  value |-> exception_spec_can_catch(fn_in.throw_type,
                                fn_in.obj, fn_in.filter_id)]
    /\ UNCHANGED <<tables, frames, __pnacl_eh_stack, xh, pc, lp, handlers, last,
                   fn_in>>

NextTables ==
    \/ CallDoesFrameMatch
    \/ CallExceptionSpecCanCatch

SpecTables == InitTables /\ [][NextTables]_vars

\* One call of does_clause_match() on a clause id of the program: -1 is the
\* exception specification of a drawn filter list, 0 a cleanup, 1..5 the
\* catch clauses of the type table, catch (...) among them.
InitClause ==
    /\ action_table = ProgramActionTable
    /\ type_table = ProgramTypeTable
    /\ \E n \in 0..MaxTable : \E fl \in FilterLists(n) :
          filter_table = fl \o <<0, 1, 2, 5, 0>>
    /\ \E ty \in ThrowTypes, c \in -1..Len(ProgramTypeTable) :
          fn_in = [fn |-> "does_clause_match", throw_type |-> ty, obj |-> 17,
                   clause_id |-> c]
    /\ frames = <<>>
    /\ __pnacl_eh_stack = [t \in Threads |-> 0]
    /\ xh = [t \in Threads |-> NoException]
    /\ pc = [t \in Threads |-> "run"]
    /\ lp = [t \in Threads |-> 0]
    /\ handlers = [unexpected |-> 1, terminate |-> 1]
    /\ last = [t \in Threads |-> NoCall]
    /\ fn_out = [returned |-> FALSE]

CallDoesClauseMatch ==
    /\ fn_in.fn = "does_clause_match"
    /\ ~fn_out.returned
    /\ fn_out' = [returned |-> TRUE,
                  value |-> does_clause_match(fn_in.throw_type, fn_in.obj,
                                              fn_in.clause_id)]
    /\ UNCHANGED <<tables, frames, __pnacl_eh_stack, xh, pc, lp, handlers, last,
                   fn_in>>

SpecClause == InitClause /\ [][CallDoesClauseMatch]_vars

\* ------------------------------------------------ what the tables declare

\* The clause ids of the clause list cl, in next_clause_list_id link order.
RECURSIVE ClauseList(_)
ClauseList(cl) ==
    IF cl = 0 THEN <<>>
    ELSE <<action_table[cl].clause_id>>
         \o ClauseList(action_table[cl].next_clause_list_id)

\* The type-table ordinals of the filter list at filter_id, up to its sentinel.
RECURSIVE FilterList(_)
FilterList(i) ==
    IF filter_table[i] = 0 THEN <<>> ELSE <<filter_table[i]>> \o FilterList(i + 1)

\* The exception specification filter_id lists a type that catches ty.
FilterAllows(filter_id, ty) ==
    \E i \in 1..Len(FilterList(-filter_id)) :
        can_catch(type_table[FilterList(-filter_id)[i]], ty, 0).match

\* The clause accepts a thrown ty: a cleanup, a violated exception
\* specification, a catch (...), or a catch of a type that catches ty.
Accepts(ty, clause_id) ==
    \/ clause_id = 0
    \/ clause_id < 0 /\ ~FilterAllows(clause_id, ty)
    \/ clause_id > 0 /\ type_table[clause_id] = NullType
    \/ clause_id > 0 /\ type_table[clause_id] # NullType
                     /\ can_catch(type_table[clause_id], ty, 0).match

\* The position in the list of the first clause that accepts ty, 0 if none.
FirstAccepting(ty, list) ==
    IF \E i \in 1..Len(list) : Accepts(ty, list[i])
    THEN CHOOSE i \in 1..Len(list) :
             /\ Accepts(ty, list[i])
             /\ \A j \in 1..(i - 1) : ~Accepts(ty, list[j])
    ELSE 0

\* The frame with clause list cl has a clause for ty; the clause it resolves to.
FrameAccepts(ty, cl) == FirstAccepting(ty, ClauseList(cl)) # 0
Resolved(ty, cl) == ClauseList(cl)[FirstAccepting(ty, ClauseList(cl))]

\* Frame f of the frames fr is entered for a clause other than a cleanup.
ResolvesNonCleanup(ty, fr, f) ==
    FrameAccepts(ty, fr[f].clause_list_id) /\ Resolved(ty, fr[f].clause_list_id) # 0

\* The position in the stack st (frame addresses, innermost first) of the
\* innermost frame with a clause for ty, 0 if none.
InnermostAccepting(ty, fr, st) ==
    IF \E k \in 1..Len(st) : FrameAccepts(ty, fr[st[k]].clause_list_id)
    THEN CHOOSE k \in 1..Len(st) :
             /\ FrameAccepts(ty, fr[st[k]].clause_list_id)
             /\ \A j \in 1..(k - 1) : ~FrameAccepts(ty, fr[st[j]].clause_list_id)
    ELSE 0

\* The calls of thread t that went through handle_exception().
Dispatched(t) == last[t].op \in {"raise", "resume"}

\* Thread t is where the longjmp() of its last call put it.
JustTransferred(t) ==
    Dispatched(t) /\ last[t].outcome = "transferred" /\ pc[t] = "landingpad"

\* The stack of thread t when its last call was entered.
PreStack(t) == StackFrom(last[t].pre_frames, last[t].pre_stack)

\* --------------------------------------------------------------- claims

\* C1: when no frame on the stack resolves to a clause other than a cleanup,
\* __pnacl_eh_sjlj_Unwind_RaiseException returns _URC_END_OF_STACK and leaves
\* the thread's stack top, the payload of every frame on the stack and the
\* header's adjustedPtr and handlerSwitchValue as they were.
C1_UnhandledRaiseChangesNothing ==
    \A t \in Threads :
        ( /\ last[t].op = "raise"
          /\ \A k \in 1..Len(PreStack(t)) :
                ~ResolvesNonCleanup(last[t].pre_xh.exceptionType,
                                    last[t].pre_frames, PreStack(t)[k]) )
        => /\ last[t].outcome = "URC_END_OF_STACK"
           /\ pc[t] = "returned"
           /\ __pnacl_eh_stack[t] = last[t].pre_stack
           /\ \A k \in 1..Len(PreStack(t)) :
                 frames[PreStack(t)[k]] = last[t].pre_frames[PreStack(t)[k]]
           /\ xh[t].adjustedPtr = last[t].pre_xh.adjustedPtr
           /\ xh[t].handlerSwitchValue = last[t].pre_xh.handlerSwitchValue

\* C1 witness: a rethrown exception, its header holding the clause id and the
\* adjusted pointer of the catch it was in, raised on a stack that holds only
\* cleanup frames; the search found one and the probe walked the rest.
C1_Witness ==
    /\ pc[1] = "returned"
    /\ last[1].op = "raise"
    /\ Len(PreStack(1)) >= 2
    /\ Len(last[1].probed) >= 1
    /\ xh[1].handlerSwitchValue > 0
    /\ xh[1].adjustedPtr # 0

\* C2: __pnacl_eh_sjlj_Unwind_RaiseException commits and transfers exactly when
\* is_exception_caught() of the thrown object from the top of the stack is true,
\* that is when some frame of the whole stack resolves to a clause other than a
\* cleanup; although the code searches first and probes from the frame after
\* the cleanup frame it found.
C2_RaiseDecisionIsFullProbe ==
    \A t \in Threads :
        last[t].op = "raise"
        => /\ (last[t].outcome = "transferred") <=> last[t].full_probe
           /\ last[t].full_probe <=>
                  \E k \in 1..Len(PreStack(t)) :
                      ResolvesNonCleanup(last[t].pre_xh.exceptionType,
                                         last[t].pre_frames, PreStack(t)[k])

\* C2 witness: the search stopped at a cleanup frame on top, the probe walked
\* the two frames after it and found a handler in the last, and raise jumped.
C2_Witness ==
    /\ last[1].op = "raise"
    /\ last[1].outcome = "transferred"
    /\ last[1].clause_id = 0
    /\ Len(last[1].searched) = 1
    /\ Len(last[1].probed) = 2
    /\ last[1].full_probe

\* C3: when raise or resume commits, the frame jumped to is the innermost frame
\* with a matching clause, the stack top becomes that frame's next link, and
\* the frames outside it stay on the stack, links and payloads unchanged.
C3_CommitPopsThroughInnermostMatch ==
    \A t \in Threads :
        JustTransferred(t)
        => LET st == PreStack(t)
               k == InnermostAccepting(last[t].pre_xh.exceptionType,
                                       last[t].pre_frames, st)
           IN  /\ k # 0
               /\ last[t].frame = st[k]
               /\ lp[t] = st[k]
               /\ __pnacl_eh_stack[t] = last[t].pre_frames[st[k]].next
               /\ StackFrom(frames, __pnacl_eh_stack[t])
                      = SubSeq(st, k + 1, Len(st))
               /\ \A j \in (k + 1)..Len(st) :
                      frames[st[j]] = last[t].pre_frames[st[j]]

\* C3 witness: a commit to the middle frame of three; the frame inside it had
\* no matching clause, the frame outside it stays.
C3_Witness ==
    /\ JustTransferred(1)
    /\ Len(PreStack(1)) = 3
    /\ last[1].frame = PreStack(1)[2]
    /\ __pnacl_eh_stack[1] = PreStack(1)[3]

\* The stack st of the frames fr is [F1, F2, F3], innermost first: F1 holds a
\* cleanup only, F2 resolves to a catch of ty, F3 has no clause for ty.
CleanupCatchUnrelated(ty, fr, st) ==
    /\ Len(st) = 3
    /\ ClauseList(fr[st[1]].clause_list_id) = <<0>>
    /\ FrameAccepts(ty, fr[st[2]].clause_list_id)
    /\ Resolved(ty, fr[st[2]].clause_list_id) > 0
    /\ ~FrameAccepts(ty, fr[st[3]].clause_list_id)

\* C4 as stated: on [F1, F2, F3] the commit of raise pops F1 and F2, the stack
\* top after it is F3.
C4_RaisePopsCleanupAndCatch ==
    \A t \in Threads :
        ( /\ last[t].op = "raise"
          /\ JustTransferred(t)
          /\ CleanupCatchUnrelated(last[t].pre_xh.exceptionType,
                                   last[t].pre_frames, PreStack(t)) )
        => __pnacl_eh_stack[t] = PreStack(t)[3]

\* C4 amended: on [F1, F2, F3] raise probes to F2 and commits to F1 for its
\* cleanup: the stack top after raise is F2, with F2 and F3 as they were.  The
\* resume that ends F1's landingpad commits to F2 for its catch clause: the
\* stack top is then F3, with F3 as it was when the exception was raised.
C4_RaisePopsCleanupResumePopsCatch ==
    \A t \in Threads :
        /\ ( /\ last[t].op = "raise"
              /\ JustTransferred(t)
              /\ CleanupCatchUnrelated(last[t].pre_xh.exceptionType,
                                       last[t].pre_frames, PreStack(t)) )
           => /\ last[t].probed = <<PreStack(t)[2]>>
              /\ lp[t] = PreStack(t)[1]
              /\ LandingpadClause(lp[t]) = 0
              /\ __pnacl_eh_stack[t] = PreStack(t)[2]
              /\ frames[PreStack(t)[2]] = last[t].pre_frames[PreStack(t)[2]]
              /\ frames[PreStack(t)[3]] = last[t].pre_frames[PreStack(t)[3]]
        /\ ( /\ last[t].op = "resume"
              /\ CleanupCatchUnrelated(last[t].pre_xh.exceptionType,
                                       last[t].raise_frames, last[t].raise_stack)
              /\ last[t].pre_stack = last[t].raise_stack[2]
              /\ pc[t] = "landingpad" )
           => /\ last[t].outcome = "transferred"
              /\ lp[t] = last[t].raise_stack[2]
              /\ LandingpadClause(lp[t]) > 0
              /\ __pnacl_eh_stack[t] = last[t].raise_stack[3]
              /\ frames[last[t].raise_stack[3]]
                     = last[t].raise_frames[last[t].raise_stack[3]]

\* C4 witness: the resume after F1's cleanup has jumped to F2's catch, F3 is
\* the stack top.
C4_Witness ==
    /\ last[1].op = "resume"
    /\ CleanupCatchUnrelated(last[1].pre_xh.exceptionType,
                             last[1].raise_frames, last[1].raise_stack)
    /\ last[1].pre_stack = last[1].raise_stack[2]
    /\ pc[1] = "landingpad"
    /\ __pnacl_eh_stack[1] = last[1].raise_stack[3]

\* C5: does_frame_match returns true with the clause id of the first entry of
\* the frame's clause list, in next_clause_list_id order, whose clause matches,
\* and false exactly when no entry matches; so the list <<catch (...), catch A>>
\* and the list <<catch A, catch (...)>> resolve a thrown D to different ids.
C5_FirstMatchInLinkOrder ==
    (fn_in.fn = "does_frame_match" /\ fn_out.returned)
    => LET list == ClauseList(frames[1].clause_list_id)
           i == FirstAccepting(fn_in.throw_type, list)
       IN  /\ fn_out.value.matched <=> (i # 0)
           /\ fn_out.value.matched => fn_out.value.clause_id = list[i]
           /\ (fn_in.throw_type = "D" /\ list = <<3, 1>>)
              => fn_out.value.matched /\ fn_out.value.clause_id = 3
           /\ (fn_in.throw_type = "D" /\ list = <<1, 3>>)
              => fn_out.value.matched /\ fn_out.value.clause_id = 1

\* C5 witness: the list holds a catch B that does not match a thrown PD, then a
\* catch (...) and a catch A* that both do; the call returned the catch (...).
C5_Witness ==
    /\ fn_in.fn = "does_frame_match"
    /\ fn_out.returned
    /\ fn_in.throw_type = "PD"
    /\ ClauseList(frames[1].clause_list_id) = <<2, 3, 4>>
    /\ fn_out.value.matched
    /\ fn_out.value.clause_id = 3

\* C6: exception_spec_can_catch returns false exactly when a type listed before
\* the 0 sentinel catches the thrown type, and true when the list runs out
\* without one, an empty list included.
C6_SpecViolatedIffNoListedTypeCatches ==
    (fn_in.fn = "exception_spec_can_catch" /\ fn_out.returned)
    => /\ (fn_out.value.result = FALSE)
             <=> FilterAllows(fn_in.filter_id, fn_in.throw_type)
       /\ FilterList(-fn_in.filter_id) = <<>> => fn_out.value.result = TRUE

\* C6 witness: the first two listed types do not catch the thrown D, the third
\* does, and the call returned false after three comparisons.
C6_Witness ==
    /\ fn_in.fn = "exception_spec_can_catch"
    /\ fn_out.returned
    /\ fn_in.throw_type = "D"
    /\ FilterList(-fn_in.filter_id) = <<4, 5, 2>>
    /\ fn_out.value.result = FALSE
    /\ fn_out.value.calls = 3

\* C7: at the longjmp() to a frame matched on a typed catch clause, the
\* frame's result holds the exception's _Unwind_Exception and the clause id,
\* the header's handlerSwitchValue is that clause id, and the header's
\* adjustedPtr is the thrown object's pointer as can_catch of the matching
\* clause's type adjusts it.
C7_TransferDeliversAdjustedObject ==
    \A t \in Threads :
        ( /\ JustTransferred(t)
          /\ last[t].clause_id > 0
          /\ type_table[last[t].clause_id] # NullType )
        => /\ frames[lp[t]].payload =
                  [kind |-> "result", exception_obj |-> xh[t].ue,
                   matched_clause_id |-> ToUint32(last[t].clause_id)]
           /\ LandingpadClause(lp[t]) = last[t].clause_id
           /\ xh[t].handlerSwitchValue = last[t].clause_id
           /\ xh[t].adjustedPtr =
                  can_catch(type_table[last[t].clause_id], xh[t].exceptionType,
                            get_object_from_ue(last[t].pre_xh)).adj

\* The can_catch calls the clause list cl can take: one for a typed catch, one
\* for each type an exception specification lists.
RECURSIVE ListCost(_)
ListCost(cl) ==
    IF cl = 0 THEN 0
    ELSE (IF action_table[cl].clause_id < 0
          THEN Len(FilterList(-action_table[cl].clause_id))
          ELSE IF action_table[cl].clause_id > 0
                  /\ type_table[action_table[cl].clause_id] # NullType
          THEN 1 ELSE 0)
         + ListCost(action_table[cl].next_clause_list_id)

\* The same for the clause lists of the frames st of fr, each taken once.
RECURSIVE StackCost(_, _)
StackCost(fr, st) ==
    IF st = <<>> THEN 0
    ELSE ListCost(fr[Head(st)].clause_list_id) + StackCost(fr, Tail(st))

\* C8: __pnacl_eh_resume never returns to the landingpad that called it: it
\* jumps to the innermost frame with a matching clause, or, when no frame has
\* one, counts the exception as caught (__cxa_begin_catch) and ends in
\* std::terminate().
C8_ResumeNeverReturns ==
    \A t \in Threads :
        last[t].op = "resume"
        => /\ pc[t] # "returned"
           /\ last[t].outcome \in {"transferred", "terminate"}
           /\ (last[t].outcome = "transferred")
                 <=> InnermostAccepting(last[t].pre_xh.exceptionType,
                                        last[t].pre_frames, PreStack(t)) # 0
           /\ last[t].outcome = "terminate"
              => /\ pc[t] = "terminated"
                 /\ xh[t].handlerCount = last[t].pre_xh.handlerCount + 1
                 /\ __pnacl_eh_stack[t] = last[t].pre_stack

\* C8 witness: a resume that found no frame on a stack of one and ended in
\* std::terminate().
C8_Witness ==
    /\ last[1].op = "resume"
    /\ last[1].outcome = "terminate"
    /\ pc[1] = "terminated"
    /\ Len(PreStack(1)) = 1

\* C9: __pnacl_eh_resume makes no non-cleanup check: a call walks the frames
\* from the stack top to the first frame with a matching clause and no frame
\* after it, and jumps to that frame also when the clause is a cleanup; the
\* can_catch calls of a raise and the resumes after it together are at most
\* twice those the clause lists of the raise's stack can take, whatever the
\* number of cleanup frames.
C9_ResumeDoesNotProbe ==
    \A t \in Threads :
        last[t].op = "resume"
        => LET st == PreStack(t)
               ty == last[t].pre_xh.exceptionType
               k == InnermostAccepting(ty, last[t].pre_frames, st)
           IN  /\ last[t].probed = <<>>
               /\ last[t].searched = SubSeq(st, 1, IF k = 0 THEN Len(st) ELSE k)
               /\ last[t].calls <= StackCost(last[t].pre_frames, last[t].searched)
               /\ k # 0 => /\ last[t].outcome = "transferred"
                           /\ last[t].frame = st[k]
                           /\ last[t].clause_id =
                                  Resolved(ty, last[t].pre_frames[st[k]].clause_list_id)
               /\ last[t].total
                      <= 2 * StackCost(last[t].raise_frames, last[t].raise_stack)

\* C9 witness: two cleanup-only frames atop a frame with a typed catch; raise
\* and the first resume jumped to the cleanups, the second resume to the
\* catch, with can_catch called by raise's check and by the last resume only.
C9_Witness ==
    /\ last[1].op = "resume"
    /\ Len(last[1].raise_stack) = 3
    /\ ClauseList(last[1].raise_frames[last[1].raise_stack[1]].clause_list_id) = <<0>>
    /\ ClauseList(last[1].raise_frames[last[1].raise_stack[2]].clause_list_id) = <<0>>
    /\ last[1].pre_stack = last[1].raise_stack[3]
    /\ last[1].outcome = "transferred"
    /\ last[1].clause_id > 0
    /\ last[1].calls >= 1
    /\ last[1].total = 2 * last[1].calls

\* The exception specification the landingpad that called
\* __cxa_call_unexpected() on thread t was entered for.
OriginalFilter(t) ==
    ToInt32(last[t].pre_frames[last[t].frame].payload.matched_clause_id)

\* The type of the exception the handler left in flight.
HookThrew(t) ==
    IF last[t].hook.kind = "rethrow" THEN last[t].pre_xh.exceptionType
    ELSE last[t].hook.type

\* C10: __pnacl_eh_sjlj_cxa_call_unexpected never returns, and when the
\* handler throws, the outcome is decided against the exception specification
\* the landingpad was entered for: the handler's exception propagates if the
\* specification allows its type; else a std::bad_exception is thrown if the
\* specification allows that; else the terminate handler saved in the header
\* at the throw is run.
C10_UnexpectedRefiltersAgainstOriginal ==
    \A t \in Threads :
        last[t].op = "call_unexpected"
        => /\ pc[t] \in {"rethrowing", "throwing", "terminated"}
           /\ OriginalFilter(t) < 0
           /\ last[t].hook.kind = "returns"
              => last[t].outcome = "abort" /\ pc[t] = "terminated"
           /\ last[t].hook.kind # "returns"
              => IF FilterAllows(OriginalFilter(t), HookThrew(t))
                 THEN /\ last[t].outcome = "propagate"
                      /\ pc[t] = "rethrowing"
                      /\ xh[t].exceptionType = HookThrew(t)
                 ELSE IF FilterAllows(OriginalFilter(t), "BadEx")
                 THEN /\ last[t].outcome = "bad_exception"
                      /\ pc[t] = "throwing"
                      /\ xh[t].exceptionType = "BadEx"
                 ELSE /\ last[t].outcome = "terminate"
                      /\ pc[t] = "terminated"
                      /\ last[t].term_handler = last[t].pre_xh.terminateHandler

\* C10 witness: the handler threw a type the specification allows, as it does
\* std::bad_exception, and the handler's exception propagated.
C10_Witness ==
    /\ last[1].op = "call_unexpected"
    /\ last[1].hook = [kind |-> "throw", type |-> "D"]
    /\ FilterAllows(OriginalFilter(1), "BadEx")
    /\ last[1].outcome = "propagate"
    /\ xh[1].exceptionType = "D"

\* C11: every call of __pnacl_eh_sjlj_Unwind_RaiseException ends in one of two
\* ways: it returns _URC_END_OF_STACK with the stack top, the frames and the
\* header as they were, or it jumps with the stack top, the header and the
\* frame's result all written; it never returns after writing any of them.
C11_RaiseReturnsUnchangedOrTransfers ==
    \A t \in Threads :
        last[t].op = "raise"
        => \/ /\ last[t].outcome = "URC_END_OF_STACK"
              /\ pc[t] = "returned"
              /\ __pnacl_eh_stack[t] = last[t].pre_stack
              /\ frames = last[t].pre_frames
              /\ xh[t] = last[t].pre_xh
           \/ /\ last[t].outcome = "transferred"
              /\ pc[t] # "returned"
              /\ pc[t] = "landingpad"
                 => /\ __pnacl_eh_stack[t] = last[t].pre_frames[last[t].frame].next
                    /\ xh[t].handlerSwitchValue = last[t].clause_id
                    /\ lp[t] = last[t].frame
                    /\ frames[lp[t]].payload =
                           [kind |-> "result", exception_obj |-> xh[t].ue,
                            matched_clause_id |-> ToUint32(last[t].clause_id)]

\* C11 witness: a raise that jumped to the landingpad of a frame matched on
\* an exception specification, two frames down the stack.
C11_Witness ==
    /\ last[1].op = "raise"
    /\ JustTransferred(1)
    /\ last[1].clause_id < 0
    /\ Len(last[1].searched) = 3
    /\ frames[lp[1]].payload.kind = "result"

\* What thread t has of its own: its stack top, the frames linked from it,
\* its exception header, where it is and the landingpad it runs.
ThreadView(t) ==
    <<__pnacl_eh_stack[t],
      [k \in 1..Len(StackFrom(frames, __pnacl_eh_stack[t])) |->
          frames[StackFrom(frames, __pnacl_eh_stack[t])[k]]],
      xh[t], pc[t], lp[t]>>

\* The frames of the sequence st, as a set.
FramesOf(st) == {st[k] : k \in 1..Len(st)}

\* C12: each thread has a stack of its own: a step of one thread leaves the
\* other thread's stack top and frames as they were, the frames a raise or a
\* resume walks and the frame it jumps to are frames of the calling thread's
\* stack, the thread's new stack top is a frame of its own stack, a frame it
\* just entered or NULL, and no frame is on both stacks.
C12_ThreadsOwnTheirStacks ==
    [][ /\ \E u \in Threads :
              \A t \in Threads \ {u} : ThreadView(t)' = ThreadView(t)
        /\ \A u \in Threads :
              ThreadView(u)' # ThreadView(u)
              => /\ __pnacl_eh_stack'[u] \in
                        FramesOf(StackFrom(frames, __pnacl_eh_stack[u]))
                        \cup {0, Len(frames) + 1}
                 /\ lp'[u] \in FramesOf(StackFrom(frames, __pnacl_eh_stack[u]))
                                \cup {0, lp[u]}
                 /\ pc[u] \in {"throwing", "landingpad"}
                    => FramesOf(last'[u].searched) \cup FramesOf(last'[u].probed)
                          \subseteq FramesOf(StackFrom(frames, __pnacl_eh_stack[u]))
        /\ FramesOf(StackFrom(frames, __pnacl_eh_stack[1]))
              \cap FramesOf(StackFrom(frames, __pnacl_eh_stack[2])) = {}
      ]_vars

\* C12 witness: both threads raised and were resumed in landingpads of their
\* own frames, the frames of the two stacks interleaved in memory: thread 2
\* jumped to a frame between thread 1's landingpad frame and thread 1's top.
C12_Witness ==
    /\ JustTransferred(1)
    /\ JustTransferred(2)
    /\ __pnacl_eh_stack[1] # 0
    /\ __pnacl_eh_stack[1] < lp[2]
    /\ lp[2] < lp[1]
    /\ frames[__pnacl_eh_stack[1]].payload.kind = "jmpbuf"

\* C13: an adjustment can_catch makes to the pointer is kept only if that
\* call reports a match: the adjustedPtr written to the header at a commit is
\* the thrown object's pointer with the adjustment of the matching can_catch
\* call alone, and the thrown object's pointer itself when the matched clause
\* is not a typed catch, whatever clauses and frames were examined before.
C13_OnlyMatchingAdjustmentRetained ==
    \A t \in Threads :
        JustTransferred(t)
        => xh[t].adjustedPtr =
              IF last[t].clause_id > 0 /\ type_table[last[t].clause_id] # NullType
              THEN can_catch(type_table[last[t].clause_id],
                             last[t].pre_xh.exceptionType,
                             get_object_from_ue(last[t].pre_xh)).adj
              ELSE get_object_from_ue(last[t].pre_xh)

\* The clause list cl has, at any position, a clause other than a cleanup
\* that accepts ty.
HasNonCleanupMatch(ty, cl) ==
    \E i \in 1..Len(ClauseList(cl)) :
        ClauseList(cl)[i] # 0 /\ Accepts(ty, ClauseList(cl)[i])

\* No cleanup clause of the clause list cl comes before another clause.
CleanupLast(cl) ==
    \A i \in 1..Len(ClauseList(cl)) :
        ClauseList(cl)[i] = 0 => \A j \in (i + 1)..Len(ClauseList(cl)) :
                                    ClauseList(cl)[j] = 0

\* C14 as stated: when some frame on the stack has anywhere in its clause
\* list a clause other than a cleanup that matches, raise does not return
\* _URC_END_OF_STACK, wherever the cleanup clauses of the list are.
C14_AnyNonCleanupClauseIsHandled ==
    \A t \in Threads :
        ( /\ last[t].op = "raise"
          /\ \E k \in 1..Len(PreStack(t)) :
                HasNonCleanupMatch(last[t].pre_xh.exceptionType,
                    last[t].pre_frames[PreStack(t)[k]].clause_list_id) )
        => last[t].outcome # "URC_END_OF_STACK"

\* C14 amended: a frame counts for the clause its list resolves to, the first
\* that matches.  On a stack whose lists all have their cleanup clauses last,
\* raise jumps exactly when some frame has a matching clause other than a
\* cleanup; when every frame with such a clause has a cleanup clause before
\* it, so that no frame resolves to it, raise returns _URC_END_OF_STACK.
C14_FirstMatchingClauseDecides ==
    \A t \in Threads :
        last[t].op = "raise"
        => LET st == PreStack(t)
               ty == last[t].pre_xh.exceptionType
               fr == last[t].pre_frames
           IN  /\ (\A k \in 1..Len(st) : CleanupLast(fr[st[k]].clause_list_id))
                  => ( (last[t].outcome = "transferred")
                       <=> \E k \in 1..Len(st) :
                              HasNonCleanupMatch(ty, fr[st[k]].clause_list_id) )
               /\ ( (\E k \in 1..Len(st) :
                         HasNonCleanupMatch(ty, fr[st[k]].clause_list_id))
                     /\ (\A j \in 1..Len(st) : ~ResolvesNonCleanup(ty, fr, st[j])) )
                  => last[t].outcome = "URC_END_OF_STACK" /\ pc[t] = "returned"

\* C14 witness: the stack holds frames whose list is [cleanup, catch A*,
\* catch B]; a D was thrown, which catch B matches, and raise returned.
C14_Witness ==
    /\ last[1].op = "raise"
    /\ last[1].outcome = "URC_END_OF_STACK"
    /\ pc[1] = "returned"
    /\ last[1].pre_xh.exceptionType = "D"
    /\ Len(PreStack(1)) = 2
    /\ \A k \in 1..2 :
          ClauseList(last[1].pre_frames[PreStack(1)[k]].clause_list_id) = <<0, 4, 2>>

\* The position in the stack st of the innermost frame that resolves to a
\* clause other than a cleanup for ty, 0 if none.
FirstNonCleanup(ty, fr, st) ==
    IF \E k \in 1..Len(st) : ResolvesNonCleanup(ty, fr, st[k])
    THEN CHOOSE k \in 1..Len(st) :
             /\ ResolvesNonCleanup(ty, fr, st[k])
             /\ \A j \in 1..(k - 1) : ~ResolvesNonCleanup(ty, fr, st[j])
    ELSE 0

\* The position of frame f in the stack st, 0 if it is not there.
Position(st, f) ==
    IF \E k \in 1..Len(st) : st[k] = f
    THEN CHOOSE k \in 1..Len(st) : st[k] = f
    ELSE 0

\* The handler the raise of the exception in flight on thread t committed
\* for: its position in the stack the exception was raised on.
RaiseHandler(t) ==
    FirstNonCleanup(last[t].pre_xh.exceptionType, last[t].raise_frames,
                    last[t].raise_stack)

\* The last call on thread t was a resume in the unwind a committed raise
\* started, every landingpad entered so far in it a cleanup: the stack the
\* resume searched starts at or before the raise's handler.
ResumedFromCleanups(t) ==
    /\ last[t].op = "resume"
    /\ Position(last[t].raise_stack, last[t].pre_stack) # 0
    /\ Position(last[t].raise_stack, last[t].pre_stack) <= RaiseHandler(t)

\* C15: a raise commits only on a stack with a frame that resolves to a
\* clause other than a cleanup, and in the unwind it starts, each cleanup
\* landingpad calling resume on the stack the commit before left, every
\* resume jumps to a further frame, none after the raise's handler, the jump
\* to the handler is for a clause other than a cleanup, and resume never
\* reaches std::terminate().
C15_ResumeAfterCleanupFindsHandler ==
    \A t \in Threads :
        /\ ( Dispatched(t)
             /\ (last[t].op = "raise" => last[t].outcome = "transferred") )
           => RaiseHandler(t) # 0
        /\ ResumedFromCleanups(t)
           => /\ last[t].outcome = "transferred"
              /\ pc[t] # "terminated"
              /\ last[t].pre_xh.handlerSwitchValue = 0
              /\ Position(last[t].raise_stack, last[t].frame) \in
                     Position(last[t].raise_stack, last[t].pre_stack)..RaiseHandler(t)
              /\ (last[t].clause_id # 0)
                    <=> last[t].frame = last[t].raise_stack[RaiseHandler(t)]

\* C15 witness: after a raise and a resume entered two cleanup landingpads,
\* the second resume jumped to the outermost frame, for an exception
\* specification the thrown type violates.
C15_Witness ==
    /\ ResumedFromCleanups(1)
    /\ RaiseHandler(1) = 3
    /\ last[1].pre_stack = last[1].raise_stack[3]
    /\ last[1].outcome = "transferred"
    /\ last[1].clause_id < 0
    /\ pc[1] = "landingpad"

\* C16: at a commit the jmp_buf of the frame is copied before the result is
\* written into the same storage: the frame held a checkpoint when the
\* dispatcher was entered, the jump goes to that checkpoint, and at the jump
\* the frame holds the result, the stack top is popped and the header holds
\* the clause id; a frame that holds a result is on no stack, so it is never
\* read as a checkpoint again.
C16_CheckpointCopiedBeforeResult ==
    /\ \A t \in Threads :
          JustTransferred(t)
          => /\ last[t].pre_frames[last[t].frame].payload.kind = "jmpbuf"
             /\ lp[t] = last[t].pre_frames[last[t].frame].payload.token
             /\ frames[last[t].frame].payload.kind = "result"
             /\ frames[last[t].frame].payload.exception_obj = xh[t].ue
             /\ __pnacl_eh_stack[t] = last[t].pre_frames[last[t].frame].next
             /\ xh[t].handlerSwitchValue = last[t].clause_id
    /\ \A t \in Threads :
          \A k \in 1..Len(StackFrom(frames, __pnacl_eh_stack[t])) :
              frames[StackFrom(frames, __pnacl_eh_stack[t])[k]].payload.kind
                  = "jmpbuf"

\* C16 witness: a resume jumped to the checkpoint of a frame while the frame
\* of the landingpad that called it, further in, still holds its result.
C16_Witness ==
    /\ last[1].op = "resume"
    /\ JustTransferred(1)
    /\ __pnacl_eh_stack[1] # 0
    /\ lp[1] = last[1].pre_frames[last[1].frame].payload.token
    /\ Len(last[1].pre_frames) > lp[1]
    /\ last[1].pre_frames[Len(last[1].pre_frames)].payload.kind = "result"

\* C17: when the handler rethrows the exception __cxa_call_unexpected() was
\* called with, the dispatcher commits it to the function's catch (...) and
\* overwrites the header's handlerSwitchValue, and the re-check still uses the
\* filter id the header held on entry and the handlers saved in the header at
\* the throw: the rethrown type violates that specification again, so a
\* std::bad_exception is thrown if the specification allows it, and else the
\* saved terminate handler is run, whatever handlers are installed by then.
C17_RecheckUsesEntryFilterAndSavedHandlers ==
    \A t \in Threads :
        (last[t].op = "call_unexpected" /\ last[t].hook.kind = "rethrow")
        => /\ OriginalFilter(t) = last[t].pre_xh.handlerSwitchValue
           /\ CaughtByCatchAll(last[t].pre_xh).handlerSwitchValue
                 # last[t].pre_xh.handlerSwitchValue
           /\ ~FilterAllows(OriginalFilter(t), last[t].pre_xh.exceptionType)
           /\ last[t].outcome # "propagate"
           /\ (last[t].outcome = "bad_exception")
                 <=> FilterAllows(OriginalFilter(t), "BadEx")
           /\ last[t].unexpected_handler = last[t].pre_xh.unexpectedHandler
           /\ last[t].outcome = "terminate"
              => /\ last[t].term_handler = last[t].pre_xh.terminateHandler
                 /\ xh[t].handlerSwitchValue = CatchAllClause
                 /\ xh[t].ue = last[t].pre_xh.ue

\* C17 witness: new handlers were installed after the throw, the handler
\* rethrew, and the terminate handler saved in the header was run.
C17_Witness ==
    /\ last[1].op = "call_unexpected"
    /\ last[1].hook.kind = "rethrow"
    /\ last[1].outcome = "terminate"
    /\ handlers.terminate = 2
    /\ last[1].term_handler = 1
    /\ xh[1].handlerSwitchValue # last[1].pre_xh.handlerSwitchValue

\* The caller's pointer after the clause list cl is walked up to its first
\* matching clause: each typed catch examined leaves what can_catch left.
RECURSIVE ListPointer(_, _, _)
ListPointer(ty, obj, cl) ==
    IF cl = 0 THEN obj
    ELSE IF action_table[cl].clause_id > 0
            /\ type_table[action_table[cl].clause_id] # NullType
    THEN IF can_catch(type_table[action_table[cl].clause_id], ty, obj).match
         THEN can_catch(type_table[action_table[cl].clause_id], ty, obj).adj
         ELSE ListPointer(ty,
                  can_catch(type_table[action_table[cl].clause_id], ty, obj).adj,
                  action_table[cl].next_clause_list_id)
    ELSE IF Accepts(ty, action_table[cl].clause_id) THEN obj
    ELSE ListPointer(ty, obj, action_table[cl].next_clause_list_id)

\* The same after the clause lists of the frames st of fr are walked in turn.
RECURSIVE StackPointer(_, _, _, _)
StackPointer(ty, obj, fr, st) ==
    IF st = <<>> THEN obj
    ELSE StackPointer(ty, ListPointer(ty, obj, fr[Head(st)].clause_list_id),
                      fr, Tail(st))

\* C18: is_exception_caught commits nothing, whatever it returns: when raise
\* returns after it, the stack top, the frames and the header are as they
\* were; when raise commits after it, the frames it walked are as they were
\* and the adjustedPtr stored is the pointer as find_match left it after the
\* frames it searched, with nothing of the can_catch calls of the check.
C18_ProbeCommitsNothing ==
    \A t \in Threads :
        (last[t].op = "raise" /\ last[t].probed # <<>>)
        => /\ last[t].outcome = "URC_END_OF_STACK"
              => /\ __pnacl_eh_stack[t] = last[t].pre_stack
                 /\ frames = last[t].pre_frames
                 /\ xh[t] = last[t].pre_xh
           /\ JustTransferred(t)
              => /\ xh[t].adjustedPtr =
                        StackPointer(last[t].pre_xh.exceptionType,
                                     get_object_from_ue(last[t].pre_xh),
                                     last[t].pre_frames, last[t].searched)
                 /\ __pnacl_eh_stack[t] = last[t].pre_frames[last[t].frame].next
                 /\ \A k \in 1..Len(last[t].probed) :
                       frames[last[t].probed[k]]
                           = last[t].pre_frames[last[t].probed[k]]

\* C18 witness: raise found a cleanup frame without a can_catch call, the
\* check called can_catch on the frames after it, and the adjustedPtr stored
\* at the commit is the thrown object's pointer.
C18_Witness ==
    /\ last[1].op = "raise"
    /\ JustTransferred(1)
    /\ last[1].probed # <<>>
    /\ last[1].calls >= 2
    /\ ClauseList(last[1].pre_frames[last[1].frame].clause_list_id) = <<0>>
    /\ last[1].searched = <<last[1].frame>>
    /\ xh[1].adjustedPtr = get_object_from_ue(last[1].pre_xh)

\* C19: does_clause_match leaves *obj as it was for every clause that is not
\* a catch of a type: a cleanup and a catch (...) match without a can_catch
\* call, and an exception specification gives what exception_spec_can_catch
\* returns, true when no listed type catches the thrown type, with nothing of
\* what can_catch did to the pointer meanwhile.
C19_OnlyTypedCatchAdjusts ==
    (fn_in.fn = "does_clause_match" /\ fn_out.returned)
    => /\ fn_in.clause_id = 0
          => fn_out.value = [matched |-> TRUE, obj |-> fn_in.obj, calls |-> 0]
       /\ (fn_in.clause_id > 0 /\ type_table[fn_in.clause_id] = NullType)
          => fn_out.value = [matched |-> TRUE, obj |-> fn_in.obj, calls |-> 0]
       /\ fn_in.clause_id < 0
          => /\ fn_out.value.obj = fn_in.obj
             /\ fn_out.value.matched
                   <=> ~FilterAllows(fn_in.clause_id, fn_in.throw_type)
       /\ (fn_in.clause_id > 0 /\ type_table[fn_in.clause_id] # NullType)
          => fn_out.value.obj = can_catch(type_table[fn_in.clause_id],
                                          fn_in.throw_type, fn_in.obj).adj

\* C19 witness: an exception specification that lists A*, BadEx and B was
\* checked for a thrown D with three can_catch calls, A* and B adjusting the
\* pointer they were given; B catches D, the clause does not match and *obj
\* is as it was.
C19_Witness ==
    /\ fn_in.fn = "does_clause_match"
    /\ fn_out.returned
    /\ fn_in.clause_id = -1
    /\ fn_in.throw_type = "D"
    /\ FilterList(1) = <<4, 5, 2>>
    /\ fn_out.value.calls = 3
    /\ ~fn_out.value.matched
    /\ fn_out.value.obj = fn_in.obj

====
